---- MODULE Spec2Model ----
(***************************************************************************)
(* A model of todo-cli (src/todo.py): tasks are text files under           *)
(* <task_dir>/todo, <task_dir>/today and <task_dir>/done; the commands     *)
(* add, edit, done and print act on that tree.                             *)
(*                                                                         *)
(* Spec      the four commands over a bounded tree of task files.          *)
(* SortSpec  the ordering stage of print (cmp_task and the sort built on   *)
(*           it) applied to bounded lists of scanned task records.         *)
(***************************************************************************)
EXTENDS Integers, Sequences, FiniteSets

VARIABLES
    fs,      \* the tree below task_dir: path -> content of the file there
    last,    \* the command that ran last, its argument and how it ended
    tasks,   \* print_task: the list the scan collected (todo.py:266-278)
    shown    \* print_task: the rows in the order they are displayed

vars == <<fs, last, tasks, shown>>

----------------------------------------------------------------------------
(* Bounds of the model.                                                    *)

\* files in the tree when the first command runs
MaxInitFiles == 1
\* priorities range over 1..MaxPriority
MaxPriority == 2
\* concrete expiry timestamps range over 0..MaxTime
MaxTime == 2
\* number of task records handed to the sort in SortSpec
MaxLen == 3

----------------------------------------------------------------------------
(* Expire values.  A task's 'expire' is absent (YAML null, what the        *)
(* template "expire: " yields), the empty string, or a timestamp string    *)
(* in date_fmt.  A timestamp is the number of its minute on a scale that   *)
(* keeps the order of the instants and on which the literal                *)
(* '2100-01-01 00:00' of cmp_task is minute SentinelTime.                  *)

SentinelTime == 1

NoExpire == [tag |-> "none", t |-> 0]
EmptyExpire == [tag |-> "empty", t |-> 0]
Stamp(t) == [tag |-> "ts", t |-> t]

Times == 0..MaxTime
Expires == {NoExpire, EmptyExpire} \cup {Stamp(t) : t \in Times}
Priorities == 1..MaxPriority

\* Python truthiness of task.get('expire'): None and '' are falsy
Falsy(e) == e.tag \in {"none", "empty"}

\* date_fmt resolves minutes; timedelta.total_seconds() counts seconds
SecondsPerMinute == 60

\* datetime.datetime.strptime(s, date_fmt): the instant, in seconds
strptime(e) == e.t * SecondsPerMinute

----------------------------------------------------------------------------
(* cmp_task and sorted(tasks, cmp_task, reverse=True).                     *)

\* cmp_task with the priority difference taken the other way round
cmp_task_priority_swapped(task_a, task_b) ==
    IF task_a.list # task_b.list
    THEN IF task_a.list = "today" THEN 1 ELSE -1
    ELSE IF task_a.expire # task_b.expire
         THEN 0 - (strptime(IF Falsy(task_a.expire) THEN Stamp(SentinelTime) ELSE task_a.expire)
                   - strptime(IF Falsy(task_b.expire) THEN Stamp(SentinelTime) ELSE task_b.expire))
         ELSE task_b.priority - task_a.priority

\* cmp_task ranking 'todo' above 'today'
cmp_task_list_swapped(task_a, task_b) ==
    IF task_a.list # task_b.list
    THEN IF task_a.list = "today" THEN -1 ELSE 1
    ELSE IF task_a.expire # task_b.expire
         THEN 0 - (strptime(IF Falsy(task_a.expire) THEN Stamp(SentinelTime) ELSE task_a.expire)
                   - strptime(IF Falsy(task_b.expire) THEN Stamp(SentinelTime) ELSE task_b.expire))
         ELSE task_a.priority - task_b.priority

\* cmp_task returning delta without the minus sign
cmp_task_delta_not_negated(task_a, task_b) ==
    IF task_a.list # task_b.list
    THEN IF task_a.list = "today" THEN 1 ELSE -1
    ELSE IF task_a.expire # task_b.expire
         THEN strptime(IF Falsy(task_a.expire) THEN Stamp(SentinelTime) ELSE task_a.expire)
              - strptime(IF Falsy(task_b.expire) THEN Stamp(SentinelTime) ELSE task_b.expire)
         ELSE task_a.priority - task_b.priority

cmp_task(task_a, task_b) ==
    IF task_a.list # task_b.list
    THEN IF task_a.list = "today" THEN 1 ELSE -1
    ELSE IF task_a.expire # task_b.expire
         THEN LET task_a_expire == IF Falsy(task_a.expire)
                                   THEN Stamp(SentinelTime) ELSE task_a.expire
                  task_b_expire == IF Falsy(task_b.expire)
                                   THEN Stamp(SentinelTime) ELSE task_b.expire
                  delta == strptime(task_a_expire) - strptime(task_b_expire)
              IN  0 - delta
         ELSE task_a.priority - task_b.priority

\* list.sort asks only "is x less than y": cmp(x, y) < 0
ISLT(x, y) == cmp_task(x, y) < 0

reverse_slice(s) == [i \in 1..Len(s) |-> s[Len(s) + 1 - i]]

\* count_run: the length of the run the list starts with (n elements are
\* known to belong to it), strictly descending or not
RECURSIVE run_descending(_, _)
run_descending(s, n) ==
    IF n < Len(s) /\ ISLT(s[n + 1], s[n]) THEN run_descending(s, n + 1) ELSE n

RECURSIVE run_ascending(_, _)
run_ascending(s, n) ==
    IF n < Len(s) /\ ~ISLT(s[n + 1], s[n]) THEN run_ascending(s, n + 1) ELSE n

count_run(s) ==
    IF Len(s) = 1 THEN <<1, FALSE>>
    ELSE IF ISLT(s[2], s[1]) THEN <<run_descending(s, 2), TRUE>>
         ELSE <<run_ascending(s, 2), FALSE>>

\* binarysort's search: the slot of pivot in the sorted s[1..r], 0-based l, r
RECURSIVE binary_slot(_, _, _, _)
binary_slot(s, pivot, l, r) ==
    IF l >= r THEN l
    ELSE LET p == l + ((r - l) \div 2)
         IN  IF ISLT(pivot, s[p + 1]) THEN binary_slot(s, pivot, l, p)
             ELSE binary_slot(s, pivot, p + 1, r)

\* binarysort: s[1..start] is sorted; insert the others one by one
RECURSIVE binarysort(_, _)
binarysort(s, start) ==
    IF start >= Len(s) THEN s
    ELSE LET pivot == s[start + 1]
             l == binary_slot(s, pivot, 0, start)
         IN  binarysort(SubSeq(s, 1, l) \o <<pivot>> \o SubSeq(s, l + 1, start)
                          \o SubSeq(s, start + 2, Len(s)),
                        start + 1)

\* list.sort(cmp, reverse) on a list shorter than 64: one run, extended by
\* binary insertion; reverse=True reverses before and after (stability)
list_sort(s, reverse) ==
    LET a == IF reverse THEN reverse_slice(s) ELSE s
        r == IF Len(a) < 2 THEN a
             ELSE LET cr == count_run(a)
                      n == cr[1]
                      b == IF cr[2]
                           THEN reverse_slice(SubSeq(a, 1, n)) \o SubSeq(a, n + 1, Len(a))
                           ELSE a
                  IN  binarysort(b, n)
    IN  IF reverse THEN reverse_slice(r) ELSE r

\* todo.py:280
sorted_tasks(s) == list_sort(s, TRUE)

----------------------------------------------------------------------------
(* The tree below task_dir.  A file <name>.txt is known by its name; a     *)
(* name or directory starting with "." is hidden.                          *)

Names == {"a", "b", ".h"}
\* what generate_id can return: letters and digits only
GenIds == {"a", "b"}

\* os.walk(task_dir), top down: the directory itself, then its subdirectories
WalkDirs == <<"", "sub", ".hid">>
ScanLists == <<"todo", "today">>

\* str.startswith(".")
Hidden(n) == n \in {".hid", ".h"}

\* The bounded tree: todo/ has a subdirectory and a hidden directory and may
\* hold a hidden file; today/ and done/ are flat.
SubDirsOf(task_list) == IF task_list = "todo" THEN {"", "sub", ".hid"} ELSE {""}

Paths ==
    {[list |-> l, dir |-> d, name |-> n] :
        l \in {"todo", "today", "done"}, d \in {"", "sub", ".hid"}, n \in Names}

TreePaths ==
    {p \in Paths : /\ p.dir \in SubDirsOf(p.list)
                   /\ Hidden(p.name) => (p.list = "todo" /\ p.dir = "")}

NoPath == [list |-> "none", dir |-> "", name |-> ""]

\* What a file holds.  "ok": both delimiter lines and a mapping with id, title
\* and project between them; "nodelim": re.match fails; "badmeta": the regex
\* matches but the block is empty or lacks one of id, title, project.
Kinds == {"ok", "nodelim", "badmeta"}
Absent == [kind |-> "absent", priority |-> 0, expire |-> NoExpire]
Template(kind) == [kind |-> kind, priority |-> 1, expire |-> NoExpire]

Exists(f, p) == f[p].kind # "absent"

EmptyTree == [p \in TreePaths |-> Absent]

RECURSIVE TreesUpTo(_)
TreesUpTo(n) ==
    IF n = 0 THEN {EmptyTree}
    ELSE LET smaller == TreesUpTo(n - 1)
         IN  smaller \cup
             {[t EXCEPT ![p] = Template(k)] :
                 t \in smaller, p \in TreePaths, k \in Kinds}

\* the directories a walk of both lists visits, in order (todo.py:107-111)
RECURSIVE VisitsFrom(_, _)
VisitsFrom(li, di) ==
    IF li > Len(ScanLists) THEN <<>>
    ELSE IF di > Len(WalkDirs) THEN VisitsFrom(li + 1, 1)
    ELSE IF WalkDirs[di] \in SubDirsOf(ScanLists[li]) /\ ~Hidden(WalkDirs[di])
         THEN <<[list |-> ScanLists[li], dir |-> WalkDirs[di]]>> \o VisitsFrom(li, di + 1)
         ELSE VisitsFrom(li, di + 1)

Visits == VisitsFrom(1, 1)

At(v, n) == [list |-> v.list, dir |-> v.dir, name |-> n]

\* find_task_by_id: task_file is assigned at every directory that holds the name
RECURSIVE find_loop(_, _, _, _)
find_loop(f, task_id, i, task_file) ==
    IF i > Len(Visits) THEN task_file
    ELSE find_loop(f, task_id, i + 1,
                   IF ~Hidden(task_id) /\ Exists(f, At(Visits[i], task_id))
                   THEN At(Visits[i], task_id) ELSE task_file)

\* find_task_by_id leaving the search at the first directory that holds the name
RECURSIVE find_loop_break(_, _, _)
find_loop_break(f, task_id, i) ==
    IF i > Len(Visits) THEN NoPath
    ELSE IF ~Hidden(task_id) /\ Exists(f, At(Visits[i], task_id))
         THEN At(Visits[i], task_id)
         ELSE find_loop_break(f, task_id, i + 1)

find_task_by_id_first(f, task_id) == find_loop_break(f, task_id, 1)

find_task_by_id(f, task_id) == find_loop(f, task_id, 1, NoPath)

----------------------------------------------------------------------------
(* The commands.  Each runs to its end before the next starts (one process *)
(* per command line).  The directories todo/ and done/ are there whenever a *)
(* command writes into them: add_task and done_task call mkdir_p first.    *)

Result(op, id, outcome, found) ==
    [op |-> op, id |-> id, outcome |-> outcome, found |-> found]

\* os.environ['EDITOR']: set, set to the empty string, or not in the environment
EditorEnv == {"set", "empty", "unset"}

\* The editor is the user's: it is taken to leave alone what the model keeps of
\* a file (its well-formedness, priority and expire).  Of the answers add_task -i
\* reads, the priority varies and the expire is left blank; SortSpec covers the
\* other expire values.

TodoFile(task_id) == [list |-> "todo", dir |-> "", name |-> task_id]
DoneFile(task_id) == [list |-> "done", dir |-> "", name |-> task_id]

\* add_task writing the file without looking whether it exists
add_task_overwrite(task_id) ==
    /\ tasks' = <<>>
    /\ shown' = <<>>
    /\ \E priority \in Priorities :
          fs' = [fs EXCEPT ![TodoFile(task_id)] =
                    [kind |-> "ok", priority |-> priority, expire |-> NoExpire]]
    /\ last' = Result("add", task_id,
                      IF Exists(fs, TodoFile(task_id)) THEN "exists" ELSE "created", NoPath)

add_task(task_id) ==
    LET task_file == TodoFile(task_id)
    IN  /\ tasks' = <<>>
        /\ shown' = <<>>
        /\ IF Exists(fs, task_file)
           THEN /\ last' = Result("add", task_id, "exists", NoPath)
                /\ fs' = fs
           ELSE \/ \* use_interactive = False: the template's defaults
                   /\ fs' = [fs EXCEPT ![task_file] = Template("ok")]
                   /\ last' = Result("add", task_id, "created", NoPath)
                \/ \* use_interactive = True: the answers, then os.environ['EDITOR']
                   \E priority \in Priorities, editor \in EditorEnv :
                     /\ fs' = [fs EXCEPT ![task_file] =
                                  [kind |-> "ok", priority |-> priority, expire |-> NoExpire]]
                     /\ last' = Result("add", task_id,
                                       IF editor = "unset" THEN "keyerror" ELSE "created",
                                       NoPath)

edit_task(task_id) ==
    LET task_file == find_task_by_id(fs, task_id)
    IN  /\ tasks' = <<>>
        /\ shown' = <<>>
        /\ fs' = fs
        /\ IF task_file = NoPath
           THEN last' = Result("edit", task_id, "notfound", NoPath)
           ELSE \E editor \in EditorEnv :
                  last' = Result("edit", task_id,
                                 CASE editor = "unset" -> "keyerror"
                                   [] editor = "empty" -> "noeditor"
                                   [] OTHER -> "edited",
                                 task_file)

\* done_task copying the file into done/ and leaving the original
done_task_copy(task_id) ==
    LET task_file == find_task_by_id(fs, task_id)
    IN  /\ tasks' = <<>>
        /\ shown' = <<>>
        /\ IF task_file = NoPath
           THEN /\ last' = Result("done", task_id, "notfound", NoPath)
                /\ fs' = fs
           ELSE /\ fs' = [fs EXCEPT ![DoneFile(task_id)] = fs[task_file]]
                /\ last' = Result("done", task_id, "done", task_file)

\* os.rename onto an existing file: replaces it on POSIX, raises OSError on Windows
done_task(task_id) ==
    LET task_file == find_task_by_id(fs, task_id)
        new_task_file == DoneFile(task_id)
    IN  /\ tasks' = <<>>
        /\ shown' = <<>>
        /\ IF task_file = NoPath
           THEN /\ last' = Result("done", task_id, "notfound", NoPath)
                /\ fs' = fs
           ELSE \/ /\ fs' = [fs EXCEPT ![task_file] = Absent,
                                       ![new_task_file] = fs[task_file]]
                   /\ last' = Result("done", task_id, "done", task_file)
                \/ /\ Exists(fs, new_task_file)
                   /\ fs' = fs
                   /\ last' = Result("done", task_id, "oserror", task_file)

\* every order in which the elements of S can be listed
Orders(S) ==
    {o \in [1..Cardinality(S) -> S] : \A i, j \in 1..Cardinality(S) : o[i] = o[j] => i = j}

\* files = [f for f in files if not f.startswith(".")]
FilesIn(f, v) == {n \in Names : ~Hidden(n) /\ Exists(f, At(v, n))}

\* the files a scan meets from visit i on, in every order os.walk may list them
RECURSIVE ScanFrom(_, _)
ScanFrom(f, i) ==
    IF i > Len(Visits) THEN {<<>>}
    ELSE {[k \in 1..Len(o) |-> At(Visits[i], o[k])] \o rest :
             o \in Orders(FilesIn(f, Visits[i])), rest \in ScanFrom(f, i + 1)}

\* parse_task on a file the scan met, tagged with its list (todo.py:274-275)
parse_task(f, p) ==
    [id |-> p.name, list |-> p.list, priority |-> f[p].priority, expire |-> f[p].expire]

\* the scan loop: a ParseError (nodelim) skips the file; the TypeError or KeyError
\* of a bad metadata block is not caught
RECURSIVE scan_loop(_, _, _, _)
scan_loop(f, files, i, acc) ==
    IF i > Len(files) THEN [raised |-> FALSE, tasks |-> acc]
    ELSE IF f[files[i]].kind = "badmeta" THEN [raised |-> TRUE, tasks |-> <<>>]
    ELSE IF f[files[i]].kind = "nodelim" THEN scan_loop(f, files, i + 1, acc)
    ELSE scan_loop(f, files, i + 1, Append(acc, parse_task(f, files[i])))

print_task ==
    \E files \in ScanFrom(fs, 1) :
        LET scan == scan_loop(fs, files, 1, <<>>)
        IN  /\ fs' = fs
            /\ IF scan.raised
               THEN /\ last' = Result("print", "", "raised", NoPath)
                    /\ tasks' = <<>>
                    /\ shown' = <<>>
               ELSE /\ last' = Result("print", "", "printed", NoPath)
                    /\ tasks' = scan.tasks
                    /\ shown' = sorted_tasks(scan.tasks)

Init ==
    /\ fs \in TreesUpTo(MaxInitFiles)
    /\ last = Result("start", "", "", NoPath)
    /\ tasks = <<>>
    /\ shown = <<>>

Next ==
    \/ \E task_id \in GenIds : add_task(task_id)
    \/ \E task_id \in Names : edit_task(task_id)
    \/ \E task_id \in Names : done_task(task_id)
    \/ print_task

Spec == Init /\ [][Next]_vars

----------------------------------------------------------------------------
(* The ordering stage alone: print_task after its scan, on every list of   *)
(* up to MaxLen records a scan can collect (the records of todo/ first,    *)
(* then those of today/).                                                  *)

Records(task_list) ==
    [id : {"a"}, list : {task_list}, priority : Priorities, expire : Expires]

ListsOfLen(S, n) == [1..n -> S]

ScannedOf(n, m) ==
    {a \o b : a \in ListsOfLen(Records("todo"), n), b \in ListsOfLen(Records("today"), m)}

Shapes == {nm \in (0..MaxLen) \X (0..MaxLen) : nm[1] + nm[2] <= MaxLen}

SortInit ==
    /\ fs = EmptyTree
    /\ last = Result("scan", "", "", NoPath)
    /\ \E nm \in Shapes : tasks \in ScannedOf(nm[1], nm[2])
    /\ shown = <<>>

sort_and_show ==
    /\ last.op = "scan"
    /\ last' = Result("print", "", "printed", NoPath)
    /\ shown' = sorted_tasks(tasks)
    /\ UNCHANGED <<fs, tasks>>

SortSpec == SortInit /\ [][sort_and_show]_vars

----------------------------------------------------------------------------
(* Properties of the commands (Spec).                                      *)

ScanListSet == {ScanLists[i] : i \in 1..Len(ScanLists)}

\* the files named <task_id>.txt under todo/ and today/, at any depth
OpenFiles(f, task_id) ==
    {p \in TreePaths : p.list \in ScanListSet /\ p.name = task_id /\ Exists(f, p)}

\* those of them a search can meet: neither hidden nor in a hidden directory
Reachable(f, task_id) ==
    {p \in OpenFiles(f, task_id) : ~Hidden(p.name) /\ ~Hidden(p.dir)}

AllFiles(f) == {p \in TreePaths : Exists(f, p)}

\* the position of a directory in the search order
VisitIndex(p) == CHOOSE i \in 1..Len(Visits) : Visits[i] = [list |-> p.list, dir |-> p.dir]

\* the records every possible scan of f collects
ScanRecords(f) ==
    UNION {LET scan == scan_loop(f, files, 1, <<>>)
           IN  {scan.tasks[i] : i \in 1..Len(scan.tasks)} : files \in ScanFrom(f, 1)}

\* C1: when <id>.txt is the only file of that name under todo/ and today/ and
\* done_task(id) returns normally, the file is then directly under done/ with
\* its content, no <id>.txt is left under todo/ or today/, and no scan of the
\* tree collects a record for it.
C1_DoneMovesOutOfScan ==
    [][\A task_id \in Names :
          (/\ last' = Result("done", task_id, "done", last'.found)
           /\ done_task(task_id)
           /\ Cardinality(OpenFiles(fs, task_id)) = 1)
          => /\ Exists(fs', DoneFile(task_id))
             /\ fs'[DoneFile(task_id)] = fs[last'.found]
             /\ OpenFiles(fs', task_id) = {}
             /\ \A r \in ScanRecords(fs') : r.id # task_id]_vars

\* C1: done_task has just moved the only open file of its id into done/
C1_Witness ==
    /\ last.op = "done"
    /\ last.outcome = "done"
    /\ OpenFiles(fs, last.id) = {}
    /\ Exists(fs, DoneFile(last.id))

\* C5 as stated: find_task_by_id returns the first <id>.txt of the search
\* order, and None exactly when the search meets none.
C5_FirstFound ==
    \A task_id \in Names :
        LET found == find_task_by_id(fs, task_id)
            met == Reachable(fs, task_id)
        IN  /\ (found = NoPath) <=> (met = {})
            /\ found # NoPath =>
                 /\ found \in met
                 /\ \A p \in met : VisitIndex(found) <= VisitIndex(p)

\* C5 as amended: find_task_by_id returns the last <id>.txt of the search
\* order (today/ after todo/, a subdirectory after its parent), and None
\* exactly when no <id>.txt with a non-hidden name exists under todo/ or
\* today/ outside hidden directories; edit_task reports that path.
C5_LastFound ==
    /\ \A task_id \in Names :
         LET found == find_task_by_id(fs, task_id)
             met == Reachable(fs, task_id)
         IN  /\ (found = NoPath) <=> (met = {})
             /\ found # NoPath =>
                  /\ found \in met
                  /\ \A p \in met : VisitIndex(p) <= VisitIndex(found)
    /\ last.op = "edit" =>
         /\ (last.outcome = "notfound") <=> (Reachable(fs, last.id) = {})
         /\ \A p \in Reachable(fs, last.id) : VisitIndex(p) <= VisitIndex(last.found)

\* C5: edit_task found today/<id>.txt although todo/<id>.txt exists as well
C5_Witness ==
    /\ last.op = "edit"
    /\ last.found.list = "today"
    /\ Exists(fs, TodoFile(last.id))

\* C6: when todo/<id>.txt exists for the generated id, add_task reports the
\* error and leaves the whole tree as it was.
C6_CollisionChangesNothing ==
    [][\A task_id \in GenIds :
          (Exists(fs, TodoFile(task_id)) /\ add_task(task_id))
          => /\ fs' = fs
             /\ last'.outcome = "exists"]_vars

\* C6: add_task has just reported a collision
C6_Witness ==
    /\ last.op = "add"
    /\ last.outcome = "exists"
    /\ Exists(fs, TodoFile(last.id))

\* the well-formed files a scan can meet
WellFormedFiles(f) ==
    {p \in AllFiles(f) : /\ p.list \in ScanListSet
                         /\ ~Hidden(p.name) /\ ~Hidden(p.dir)
                         /\ f[p].kind = "ok"}

\* C7: whatever well-formed and malformed files todo/ and today/ hold, the
\* scan of print_task does not raise and collects one record per well-formed
\* file.
C7_MalformedIsolated ==
    last.op = "print" =>
        /\ last.outcome = "printed"
        /\ Len(tasks) = Cardinality(WellFormedFiles(fs))

\* C8: no step of add_task or done_task loses a file: every file is afterwards
\* still in the tree under its name with its content, and done_task replaces no
\* file of done/.
C8_NothingDeleted ==
    [][/\ \A p \in AllFiles(fs) :
            \E q \in AllFiles(fs') : q.name = p.name /\ fs'[q] = fs[p]
       /\ Cardinality(AllFiles(fs')) >= Cardinality(AllFiles(fs))]_vars

\* at most one file per id under todo/ and today/ together, subdirectories
\* included (files no scan can meet are not counted)
UniqueOpenIds(f) == \A task_id \in Names : Cardinality(Reachable(f, task_id)) <= 1

\* C9: a tree with at most one file per id under todo/ and today/ is still
\* such a tree after any command.
C9_IdsStayUnique == [][UniqueOpenIds(fs) => UniqueOpenIds(fs')]_vars

----------------------------------------------------------------------------
(* Properties of the display order (SortSpec).                             *)

Printed == last.op = "print" /\ last.outcome = "printed"

Rows == 1..Len(shown)

\* the instant cmp_task compares by
Instant(e) == IF Falsy(e) THEN SentinelTime ELSE e.t

\* another row of the same list stands for the instant of row i under a
\* different expire value (absent, empty and the literal sentinel do)
Aliased(i) ==
    \E k \in Rows : /\ shown[k].list = shown[i].list
                    /\ shown[k].expire # shown[i].expire
                    /\ Instant(shown[k].expire) = Instant(shown[i].expire)

TaskA == [id |-> "a", list |-> "today", priority |-> 2, expire |-> Stamp(0)]
TaskB == [id |-> "a", list |-> "today", priority |-> 1, expire |-> Stamp(0)]
TaskC == [id |-> "a", list |-> "todo", priority |-> 1, expire |-> NoExpire]

\* C2 as stated: of two displayed tasks of the same list and the same expire
\* (both absent included), the one with the lower priority number comes first;
\* A, B, C are displayed B, A, C.
C2_LowerPriorityFirst ==
    Printed =>
        /\ \A i, j \in Rows :
             (/\ shown[i].list = shown[j].list
              /\ shown[i].expire = shown[j].expire
              /\ shown[i].priority < shown[j].priority) => i < j
        /\ tasks \in {<<TaskC, TaskA, TaskB>>, <<TaskC, TaskB, TaskA>>}
             => shown = <<TaskB, TaskA, TaskC>>

\* C2 as amended: of two displayed tasks of the same list and the same expire
\* (both absent included), the one with the higher priority number comes
\* first, unless another task of that list stands for the same instant under
\* a different expire value; A, B, C are displayed A, B, C.
C2_HigherPriorityFirst ==
    Printed =>
        /\ \A i, j \in Rows :
             (/\ shown[i].list = shown[j].list
              /\ shown[i].expire = shown[j].expire
              /\ shown[i].priority > shown[j].priority
              /\ ~Aliased(i)) => i < j
        /\ tasks \in {<<TaskC, TaskA, TaskB>>, <<TaskC, TaskB, TaskA>>}
             => shown = <<TaskA, TaskB, TaskC>>

\* C2: two tasks of one list and one expire with different priorities are displayed
C2_Witness ==
    /\ Printed
    /\ \E i, j \in Rows :
         /\ i < j
         /\ shown[i].list = shown[j].list
         /\ shown[i].expire = shown[j].expire
         /\ shown[i].priority > shown[j].priority

\* C3: every displayed task of 'today' comes before every displayed task of
\* 'todo', and every scanned task is displayed.
C3_TodayBeforeTodo ==
    Printed =>
        /\ Len(shown) = Len(tasks)
        /\ \A r \in {tasks[i] : i \in 1..Len(tasks)} :
             Cardinality({i \in Rows : shown[i] = r})
               = Cardinality({i \in 1..Len(tasks) : tasks[i] = r})
        /\ \A i, j \in Rows :
             (shown[i].list = "today" /\ shown[j].list = "todo") => i < j

\* C3: a 'today' task without expiry is displayed before a 'todo' task that
\* expires sooner and has the higher priority number
C3_Witness ==
    /\ Printed
    /\ \E i, j \in Rows :
         /\ i < j
         /\ shown[i].list = "today" /\ shown[j].list = "todo"
         /\ shown[i].expire = NoExpire /\ shown[j].expire = Stamp(0)
         /\ shown[i].priority < shown[j].priority

\* C4 as stated: within a list the task with the earlier expiry timestamp is
\* displayed first, and a task without expiry after every task with a
\* timestamp, whatever the timestamp.
C4_NoExpiryLast ==
    Printed =>
        \A i, j \in Rows :
            shown[i].list = shown[j].list =>
                /\ (/\ shown[i].expire.tag = "ts" /\ shown[j].expire.tag = "ts"
                    /\ shown[i].expire.t < shown[j].expire.t) => i < j
                /\ (shown[i].expire.tag = "ts" /\ Falsy(shown[j].expire)) => i < j

\* C4 as amended: within a list the task with the earlier expiry timestamp is
\* displayed first, and a task without expiry after every task whose
\* timestamp is earlier than 2100-01-01 00:00 and before every task whose
\* timestamp is later.
C4_NoExpiryAfterEarlier ==
    Printed =>
        \A i, j \in Rows :
            shown[i].list = shown[j].list =>
                /\ (/\ shown[i].expire.tag = "ts" /\ shown[j].expire.tag = "ts"
                    /\ shown[i].expire.t < shown[j].expire.t) => i < j
                /\ (/\ shown[i].expire.tag = "ts" /\ Falsy(shown[j].expire)
                    /\ shown[i].expire.t < SentinelTime) => i < j
                /\ (/\ Falsy(shown[i].expire) /\ shown[j].expire.tag = "ts"
                    /\ shown[j].expire.t > SentinelTime) => i < j

\* C4: a list is displayed with a timestamp before the sentinel, one after it
\* and a task without expiry
C4_Witness ==
    /\ Printed
    /\ \E i, j, k \in Rows :
         /\ shown[i].list = shown[j].list /\ shown[j].list = shown[k].list
         /\ shown[i].expire.tag = "ts" /\ shown[i].expire.t < SentinelTime
         /\ shown[j].expire = NoExpire
         /\ shown[k].expire.tag = "ts" /\ shown[k].expire.t > SentinelTime

Sign(n) == IF n > 0 THEN 1 ELSE IF n < 0 THEN -1 ELSE 0

\* C10: on the scanned records cmp_task is reflexive (cmp(a,a) = 0),
\* antisymmetric in sign, and transitive: cmp(a,b) <= 0 and cmp(b,c) <= 0
\* give cmp(a,c) <= 0.
C10_ConsistentComparator ==
    \A i, j, k \in 1..Len(tasks) :
        LET a == tasks[i]
            b == tasks[j]
            c == tasks[k]
        IN  /\ cmp_task(a, a) = 0
            /\ Sign(cmp_task(a, b)) = 0 - Sign(cmp_task(b, a))
            /\ (cmp_task(a, b) <= 0 /\ cmp_task(b, c) <= 0) => cmp_task(a, c) <= 0

====
